---- MODULE Spec2Model ----
(***************************************************************************)
(* Model of main_wpp.py: the WhatsApp Web sender.  main() loads the phone  *)
(* numbers, starts one browser session, runs send_message once per number, *)
(* renders a report, sends it to the report recipients and releases the    *)
(* session in a finally block.                                             *)
(*                                                                         *)
(* Python strings are sequences of one-character strings.  Python values   *)
(* that may be None are records [t |-> "None" | "str" | "int", v |-> ...]. *)
(***************************************************************************)
EXTENDS Integers, Sequences, FiniteSets, TLC

(***************************************************************************)
(* Bounds of the model.                                                    *)
(***************************************************************************)
\* longest worksheet column explored
MaxCells == 3
\* most --report-number options given on the command line
MaxExtraReports == 1

(***************************************************************************)
(* Python values.                                                          *)
(***************************************************************************)
PyNone == [t |-> "None", v |-> <<>>]
PyStr(s) == [t |-> "str", v |-> s]
\* an int cell of the worksheet; v is its decimal representation, str(value)
PyInt(s) == [t |-> "int", v |-> s]

AsciiDigit == {"0", "1", "2", "3", "4", "5", "6", "7", "8", "9"}
\* characters outside 0-9 for which str.isdigit() is True (superscript two)
UnicodeDigit == {"SUPERSCRIPT_TWO"}
Whitespace == {" "}

\* str.isdigit on one character
isdigit(c) == c \in AsciiDigit \cup UnicodeDigit

\* str(value)
str(value) == IF value.t = "None" THEN <<"N", "o", "n", "e">> ELSE value.v

\* ''.join(filter(str.isdigit, s))
RECURSIVE filter_isdigit(_)
filter_isdigit(s) ==
    IF s = <<>> THEN <<>>
    ELSE IF isdigit(Head(s)) THEN <<Head(s)>> \o filter_isdigit(Tail(s))
    ELSE filter_isdigit(Tail(s))

\* Python truthiness of a str | None value
truthy(value) == value.t # "None" /\ value.v # <<>>

normalize_phone(value) ==
    IF value.t = "None" THEN PyNone
    ELSE LET digits == filter_isdigit(str(value))
         IN  IF digits # <<>> THEN PyStr(digits) ELSE PyNone

\* str.strip()
RECURSIVE lstrip(_)
lstrip(s) == IF s # <<>> /\ Head(s) \in Whitespace THEN lstrip(Tail(s)) ELSE s

RECURSIVE rstrip(_)
rstrip(s) ==
    IF s # <<>> /\ s[Len(s)] \in Whitespace THEN rstrip(SubSeq(s, 1, Len(s) - 1)) ELSE s

strip(s) == rstrip(lstrip(s))

\* str.lower() on the letters the model uses
lower_char(c) == IF c = "T" THEN "t" ELSE c

lower(s) == [i \in 1..Len(s) |-> lower_char(s[i])]

\* the header marker of the column
TELEFONES == <<"t", "e", "l", "e", "f", "o", "n", "e", "s">>

\* isinstance(cell.value, str) and cell.value.strip().lower() == "telefones"
is_header(value) == value.t = "str" /\ lower(strip(value.v)) = TELEFONES

\* --limit: None or an int
NoLimit == [t |-> "None", n |-> 0]
Limit(n) == [t |-> "int", n |-> n]

\* `limit and len(numbers) >= limit`
limit_reached(limit, numbers) ==
    limit.t = "int" /\ limit.n # 0 /\ Len(numbers) >= limit.n

\* the first loop of load_numbers: cells from position i on, numbers read so far
RECURSIVE read_column(_, _, _, _)
read_column(cells, i, numbers, limit) ==
    IF i > Len(cells) THEN numbers
    ELSE IF is_header(cells[i]) THEN read_column(cells, i + 1, numbers, limit)
    ELSE LET digits == normalize_phone(cells[i])
         IN  IF ~truthy(digits) THEN read_column(cells, i + 1, numbers, limit)
             ELSE LET appended == Append(numbers, digits.v)
                  IN  IF limit_reached(limit, appended) THEN appended
                      ELSE read_column(cells, i + 1, appended, limit)

\* ordered_unique without the `if number not in seen`
ordered_unique_keeps_all(numbers, acc) == acc \o numbers

\* the second loop of load_numbers: removes duplicates, keeps the order
RECURSIVE ordered_unique(_, _)
ordered_unique(numbers, acc) ==
    IF numbers = <<>> THEN acc
    ELSE IF \E k \in 1..Len(acc) : acc[k] = Head(numbers)
         THEN ordered_unique(Tail(numbers), acc)
         ELSE ordered_unique(Tail(numbers), Append(acc, Head(numbers)))

\* load_numbers that reads the whole column and cuts the list of unique
\* numbers at the limit
load_numbers_cap_after_unique(cells, limit) ==
    LET unique == ordered_unique(read_column(cells, 1, <<>>, NoLimit), <<>>)
    IN  IF limit.t = "int" /\ limit.n > 0 /\ Len(unique) > limit.n
        THEN SubSeq(unique, 1, limit.n)
        ELSE unique

load_numbers(cells, limit) == ordered_unique(read_column(cells, 1, <<>>, limit), <<>>)


(***************************************************************************)
(* Statistics and report.                                                  *)
(***************************************************************************)
RunStats(successful, failed) ==
    [successful_numbers |-> successful, failed_numbers |-> failed]

\* RunStats.total
total(stats) == Len(stats.successful_numbers) + Len(stats.failed_numbers)

\* time.strftime("%H:%M:%S", time.gmtime(seconds)): the time of day of the
\* instant `seconds` after the epoch, so the hours wrap at 24
format_duration(seconds) ==
    LET tod == seconds % 86400
    IN  <<tod \div 3600, (tod % 3600) \div 60, tod % 60>>

\* tempo_medio whose guard yields elapsed instead of 0
tempo_medio_unguarded(stats, elapsed) ==
    IF total(stats) # 0 THEN [num |-> elapsed, den |-> total(stats)]
    ELSE [num |-> elapsed, den |-> 1]

\* tempo_medio = elapsed / stats.total if stats.total else 0, as a fraction
tempo_medio(stats, elapsed) ==
    IF total(stats) # 0 THEN [num |-> elapsed, den |-> total(stats)]
    ELSE [num |-> 0, den |-> 1]

\* time.gmtime truncates its float argument towards minus infinity
floor(q) == q.num \div q.den

\* the fields of the rendered text, one per line of the f-string
build_report(stats, elapsed) ==
    [total_de_numeros  |-> total(stats),
     enviados_sucesso  |-> Len(stats.successful_numbers),
     enviados_erro     |-> Len(stats.failed_numbers),
     numeros_com_erro  |-> stats.failed_numbers,
     tempo_de_execucao |-> format_duration(elapsed),
     tempo_medio       |-> format_duration(floor(tempo_medio(stats, elapsed)))]

\* report_message before build_report has run
NoReport == [total_de_numeros |-> 0, enviados_sucesso |-> 0, enviados_erro |-> 0,
             numeros_com_erro |-> <<>>, tempo_de_execucao |-> <<>>,
             tempo_medio |-> <<>>]

\* load_message(None)
DEFAULT_MESSAGE == [template |-> "DEFAULT_MESSAGE"]

(***************************************************************************)
(* Command line.                                                           *)
(***************************************************************************)
\* Delays are counted in units of 5 seconds, the default of --delay.
\* time.sleep raises OverflowError above 2^63 ns = 9223372036.85 s, which is
\* 1844674407 units.
PyTimeMax == 1844674407

\* time.sleep(delay) raises instead of sleeping
sleep_raises(delay) == delay > PyTimeMax

\* default of --report-number
DefaultReportNumbers ==
    << <<"1", "1", "9", "6", "9", "2", "5", "7", "9", "2", "0">>,
       <<"1", "1", "9", "5", "3", "0", "7", "5", "4", "4", "2">> >>

\* report_numbers where the options given replace the default
report_numbers_replace_default(given) ==
    IF given = <<>> THEN DefaultReportNumbers ELSE given

\* action="append" with a list default: argparse appends to the default
report_numbers(given) == DefaultReportNumbers \o given


(***************************************************************************)
(* State.                                                                  *)
(***************************************************************************)
VARIABLES
    args,            \* the parsed command line: limit, delay, report_numbers
    worksheet,       \* the cells of the column, until the workbook is closed
    pc,              \* where main is
    numbers,         \* main's numbers
    session,         \* the Chrome process: "none", "started" or "quit"
    handle,          \* main holds `browser` (build_browser has returned)
    quit_calls,      \* how often browser.quit() was called
    successful,      \* process_numbers' local list
    failed,          \* process_numbers' local list
    idx,             \* position of process_numbers' loop in numbers
    ridx,            \* position of send_report's loop in args.report_numbers
    frame,           \* the frame of the current (or last) send_message call
    send_log,        \* every send_message call so far: caller, number, message
    returns,         \* every boolean send_message has returned, in order
    stats,           \* main's stats, once process_numbers has returned
    elapsed,         \* main's elapsed, in seconds
    report_message,  \* main's report_message
    skipped,         \* the report recipients send_report warned about
    printed,         \* the report was printed
    exc,             \* the exception propagating out of main's try block
    exit_code        \* {} until main returns, then {its return value}

vars == <<args, worksheet, pc, numbers, session, handle, quit_calls, successful,
          failed, idx, ridx, frame, send_log, returns, stats, elapsed,
          report_message, skipped, printed, exc, exit_code>>

(***************************************************************************)
(* Inputs.                                                                 *)
(***************************************************************************)
\* values a cell of the column may hold
CellValues ==
    { PyNone,
      PyStr(<<>>),
      PyStr(<<" ", "T", "e", "l", "e", "f", "o", "n", "e", "s">>),
      PyStr(<<"(", "1", "1", ")", " ", "9">>),
      PyStr(<<"1", "1", "-", "9">>),
      PyInt(<<"2", "2">>),
      PyStr(<<"x", "SUPERSCRIPT_TWO">>) }

RECURSIVE SeqsUpTo(_, _)
SeqsUpTo(S, n) ==
    IF n = 0 THEN {<<>>}
    ELSE LET shorter == SeqsUpTo(S, n - 1)
         IN  shorter \cup {Append(s, x) : s \in shorter, x \in S}

Columns == SeqsUpTo(CellValues, MaxCells)

Limits == {NoLimit, Limit(2)}

\* the default delay and one that time.sleep rejects
Delays == {1, PyTimeMax + 1}

\* values of --report-number options: one without digits, one with
ReportOptions == {<<"-">>, <<"(", "3", ")">>}

\* wall-clock differences time.time() - start, in seconds; time.time() is not
\* monotonic, so the difference is negative when the clock was set back
ElapsedSamples == {0 - 1, 100}

NoFrame == [pc |-> "idle", caller |-> "none", number |-> <<>>,
            message |-> DEFAULT_MESSAGE, ret |-> "unset", failed_at |-> "none",
            alert |-> "none", steps |-> <<>>]

Init ==
    /\ args \in [limit : Limits, delay : Delays,
                 report_numbers : {report_numbers(g) :
                                     g \in SeqsUpTo(ReportOptions, MaxExtraReports)}]
    /\ worksheet \in Columns
    /\ pc = "load_numbers"
    /\ numbers = <<>>
    /\ session = "none"
    /\ handle = FALSE
    /\ quit_calls = 0
    /\ successful = <<>>
    /\ failed = <<>>
    /\ idx = 1
    /\ ridx = 1
    /\ frame = NoFrame
    /\ send_log = <<>>
    /\ returns = <<>>
    /\ stats = RunStats(<<>>, <<>>)
    /\ elapsed = 0
    /\ report_message = NoReport
    /\ skipped = <<>>
    /\ printed = FALSE
    /\ exc = "none"
    /\ exit_code = {}


(***************************************************************************)
(* main, up to the try block.                                              *)
(***************************************************************************)
\* LoadNumbers without the `if not numbers: return 1`
LoadNumbers_no_check ==
    /\ pc = "load_numbers"
    /\ numbers' = load_numbers(worksheet, args.limit)
    /\ worksheet' = <<>>
    /\ pc' = "build_browser"
    /\ UNCHANGED <<args, session, handle, quit_calls, successful, failed, idx,
                   ridx, frame, send_log, returns, stats, elapsed,
                   report_message, skipped, printed, exc, exit_code>>

\* numbers = load_numbers(...); if not numbers: return 1
LoadNumbers ==
    /\ pc = "load_numbers"
    /\ numbers' = load_numbers(worksheet, args.limit)
    /\ worksheet' = <<>>
    /\ IF numbers' = <<>>
       THEN pc' = "returned" /\ exit_code' = {1}
       ELSE pc' = "build_browser" /\ exit_code' = exit_code
    /\ UNCHANGED <<args, session, handle, quit_calls, successful, failed, idx,
                   ridx, frame, send_log, returns, stats, elapsed,
                   report_message, skipped, printed, exc>>

\* browser, wait = build_browser(...): webdriver.Chrome() may fail to start a
\* session, and maximize_window() may fail on the started one; neither is
\* caught, and main is not yet inside its try block
BuildBrowser ==
    /\ pc = "build_browser"
    /\ \/ /\ session' = "none"
          /\ handle' = FALSE
          /\ exc' = "WebDriverException"
          /\ pc' = "raised"
       \/ /\ session' = "started"
          /\ handle' = FALSE
          /\ exc' = "WebDriverException"
          /\ pc' = "raised"
       \/ /\ session' = "started"
          /\ handle' = TRUE
          /\ exc' = exc
          /\ pc' = "process_numbers"
    /\ UNCHANGED <<args, worksheet, numbers, quit_calls, successful, failed, idx,
                   ridx, frame, send_log, returns, stats, elapsed,
                   report_message, skipped, printed, exit_code>>

(***************************************************************************)
(* send_message.                                                           *)
(***************************************************************************)
\* the frame of a new call send_message(browser, wait, number, message, delay)
call_send_message(caller, number, message) ==
    [pc |-> "get", caller |-> caller, number |-> number, message |-> message,
     ret |-> "unset", failed_at |-> "none", alert |-> "none", steps |-> <<>>]

\* frame.steps lists the statements of send_message this call has executed

\* a statement of the try block that succeeds and is followed by `next`
step_ok(next) == [frame EXCEPT !.pc = next, !.steps = Append(@, frame.pc)]

\* step_raises that logs the error and goes on with the next statement
step_raises_goes_on(step) ==
    [frame EXCEPT !.pc = IF step = "get" THEN "title"
                         ELSE IF step = "title" THEN "box"
                         ELSE IF step = "box" THEN "keys"
                         ELSE "sleep",
                  !.ret = "False", !.failed_at = step, !.steps = Append(@, step)]

\* a statement of the try block that raises: the except clause logs the error
\* and returns False, so the finally block runs next
step_raises(step) ==
    [frame EXCEPT !.pc = "sleep", !.ret = "False", !.failed_at = step,
                  !.steps = Append(@, step)]

\* return True, so the finally block runs next
return_true == [frame EXCEPT !.pc = "sleep", !.ret = "True", !.steps = Append(@, "keys")]

unchanged_by_send ==
    UNCHANGED <<args, worksheet, pc, numbers, session, handle, quit_calls,
                successful, failed, idx, ridx, send_log, returns, stats, elapsed,
                report_message, skipped, printed, exc, exit_code>>

\* browser.get(url)
SendGet ==
    /\ frame.pc = "get"
    /\ \/ frame' = step_ok("title")
       \/ frame' = step_raises("get")
    /\ unchanged_by_send

\* wait.until(EC.title_contains('WhatsApp'))
SendWaitTitle ==
    /\ frame.pc = "title"
    /\ \/ frame' = step_ok("box")
       \/ frame' = step_raises("title")
    /\ unchanged_by_send

\* input_box = wait_for_message_box(wait)
SendWaitBox ==
    /\ frame.pc = "box"
    /\ \/ frame' = step_ok("keys")
       \/ frame' = step_raises("box")
    /\ unchanged_by_send

\* input_box.send_keys(message); return True
SendKeys ==
    /\ frame.pc = "keys"
    /\ \/ frame' = return_true
       \/ frame' = step_raises("keys")
    /\ unchanged_by_send

\* SendSleep in a send_message that dismisses the alert only after a send
\* that succeeded: after a failed one it sleeps and returns False
SendSleep_dismiss_on_success ==
    /\ frame.pc = "sleep"
    /\ ~sleep_raises(args.delay)
    /\ IF frame.ret = "True"
       THEN /\ frame' = [frame EXCEPT !.pc = "dismiss", !.steps = Append(@, "sleep")]
            /\ returns' = returns
       ELSE /\ frame' = [frame EXCEPT !.pc = "returned", !.steps = Append(@, "sleep")]
            /\ returns' = Append(returns, frame.ret)
    /\ UNCHANGED <<args, worksheet, pc, numbers, session, handle, quit_calls,
                   successful, failed, idx, ridx, send_log, stats, elapsed,
                   report_message, skipped, printed, exc, exit_code>>

\* finally: time.sleep(delay).  When it raises, the exception replaces the
\* pending return value and leaves send_message, its caller (neither
\* process_numbers nor send_report catches it) and main's try block.
SendSleep ==
    /\ frame.pc = "sleep"
    /\ IF sleep_raises(args.delay)
       THEN /\ frame' = [frame EXCEPT !.pc = "raised", !.ret = "unset",
                                      !.steps = Append(@, "sleep")]
            /\ exc' = "OverflowError"
            /\ pc' = "finally"
       ELSE /\ frame' = [frame EXCEPT !.pc = "dismiss", !.steps = Append(@, "sleep")]
            /\ UNCHANGED <<exc, pc>>
    /\ UNCHANGED <<args, worksheet, numbers, session, handle, quit_calls,
                   successful, failed, idx, ridx, send_log, returns, stats,
                   elapsed, report_message, skipped, printed, exit_code>>

\* SendDismiss with a dismiss_alert that does not catch: without an open alert
\* switch_to.alert raises, and the exception replaces the pending return
SendDismiss_uncaught ==
    /\ frame.pc = "dismiss"
    /\ \/ /\ frame' = [frame EXCEPT !.pc = "returned", !.alert = "accepted",
                                    !.steps = Append(@, "dismiss")]
          /\ returns' = Append(returns, frame.ret)
          /\ UNCHANGED <<pc, exc>>
       \/ /\ frame' = [frame EXCEPT !.pc = "raised", !.alert = "absent",
                                    !.ret = "unset", !.steps = Append(@, "dismiss")]
          /\ exc' = "NoAlertPresentException"
          /\ pc' = "finally"
          /\ returns' = returns
    /\ UNCHANGED <<args, worksheet, numbers, session, handle, quit_calls,
                   successful, failed, idx, ridx, send_log, stats, elapsed,
                   report_message, skipped, printed, exit_code>>

\* finally: dismiss_alert(browser), then the pending return.  No alert is
\* open (switch_to.alert raises), or the alert is accepted, or accept() raises;
\* dismiss_alert swallows both exceptions.
SendDismiss ==
    /\ frame.pc = "dismiss"
    /\ \E alert \in {"absent", "accepted", "accept_raised"} :
          frame' = [frame EXCEPT !.pc = "returned", !.alert = alert,
                                 !.steps = Append(@, "dismiss")]
    /\ returns' = Append(returns, frame.ret)
    /\ UNCHANGED <<args, worksheet, pc, numbers, session, handle, quit_calls,
                   successful, failed, idx, ridx, send_log, stats, elapsed,
                   report_message, skipped, printed, exc, exit_code>>

(***************************************************************************)
(* process_numbers.                                                        *)
(***************************************************************************)
\* for number in numbers: send_message(browser, wait, number, message, delay)
ProcessNumbersCall ==
    /\ pc = "process_numbers"
    /\ frame.pc = "idle"
    /\ idx <= Len(numbers)
    /\ frame' = call_send_message("process_numbers", numbers[idx], DEFAULT_MESSAGE)
    /\ send_log' = Append(send_log, [caller |-> "process_numbers",
                                     number |-> numbers[idx],
                                     message |-> DEFAULT_MESSAGE])
    /\ UNCHANGED <<args, worksheet, pc, numbers, session, handle, quit_calls,
                   successful, failed, idx, ridx, returns, stats, elapsed,
                   report_message, skipped, printed, exc, exit_code>>

\* appended_to with the branches of the if exchanged
appended_to_swapped(ret) == IF ret = "True" THEN "failed" ELSE "successful"

\* the list process_numbers appends the number to
appended_to(ret) == IF ret = "True" THEN "successful" ELSE "failed"

\* ProcessNumbersAppend without the else branch: a failed number is forgotten
ProcessNumbersAppend_no_else ==
    /\ pc = "process_numbers"
    /\ frame.pc = "returned"
    /\ frame.caller = "process_numbers"
    /\ successful' = IF frame.ret = "True" THEN Append(successful, numbers[idx])
                     ELSE successful
    /\ idx' = idx + 1
    /\ frame' = [frame EXCEPT !.pc = "idle", !.alert = "none"]
    /\ UNCHANGED <<args, worksheet, pc, numbers, session, handle, quit_calls,
                   failed, ridx, send_log, returns, stats, elapsed,
                   report_message, skipped, printed, exc, exit_code>>

\* ProcessNumbersAppend that leaves the loop at the first failed send
ProcessNumbersAppend_break ==
    /\ pc = "process_numbers"
    /\ frame.pc = "returned"
    /\ frame.caller = "process_numbers"
    /\ IF frame.ret = "True"
       THEN /\ successful' = Append(successful, numbers[idx])
            /\ failed' = failed
            /\ idx' = idx + 1
       ELSE /\ failed' = Append(failed, numbers[idx])
            /\ successful' = successful
            /\ idx' = Len(numbers) + 1
    /\ frame' = [frame EXCEPT !.pc = "idle", !.alert = "none"]
    /\ UNCHANGED <<args, worksheet, pc, numbers, session, handle, quit_calls,
                   ridx, send_log, returns, stats, elapsed, report_message,
                   skipped, printed, exc, exit_code>>

\* if send_message(...): successful.append(number) else: failed.append(number)
ProcessNumbersAppend ==
    /\ pc = "process_numbers"
    /\ frame.pc = "returned"
    /\ frame.caller = "process_numbers"
    /\ IF appended_to(frame.ret) = "successful"
       THEN successful' = Append(successful, numbers[idx]) /\ failed' = failed
       ELSE failed' = Append(failed, numbers[idx]) /\ successful' = successful
    /\ idx' = idx + 1
    /\ frame' = [frame EXCEPT !.pc = "idle", !.alert = "none"]
    /\ UNCHANGED <<args, worksheet, pc, numbers, session, handle, quit_calls,
                   ridx, send_log, returns, stats, elapsed, report_message,
                   skipped, printed, exc, exit_code>>

\* ProcessNumbersReturn in a main that quits the browser as soon as the
\* numbers are processed, before the report is sent
ProcessNumbersReturn_quits ==
    /\ pc = "process_numbers"
    /\ frame.pc = "idle"
    /\ idx > Len(numbers)
    /\ stats' = RunStats(successful, failed)
    /\ elapsed' \in ElapsedSamples
    /\ session' = "quit"
    /\ pc' = "build_report"
    /\ UNCHANGED <<args, worksheet, numbers, handle, quit_calls,
                   successful, failed, idx, ridx, frame, send_log, returns,
                   report_message, skipped, printed, exc, exit_code>>

\* the loop is over: return RunStats(...); main: elapsed = time.time() - start
ProcessNumbersReturn ==
    /\ pc = "process_numbers"
    /\ frame.pc = "idle"
    /\ idx > Len(numbers)
    /\ stats' = RunStats(successful, failed)
    /\ elapsed' \in ElapsedSamples
    /\ pc' = "build_report"
    /\ UNCHANGED <<args, worksheet, numbers, session, handle, quit_calls,
                   successful, failed, idx, ridx, frame, send_log, returns,
                   report_message, skipped, printed, exc, exit_code>>

(***************************************************************************)
(* Report.                                                                 *)
(***************************************************************************)
\* report_message = build_report(stats, elapsed).  time.gmtime of a negative
\* number raises OSError on platforms whose C library rejects it, and gives
\* the time of day before the epoch on the others.
BuildReport ==
    /\ pc = "build_report"
    /\ \/ /\ report_message' = build_report(stats, elapsed)
          /\ pc' = "send_report"
          /\ exc' = exc
       \/ /\ elapsed < 0
          /\ report_message' = report_message
          /\ pc' = "finally"
          /\ exc' = "OSError"
    /\ UNCHANGED <<args, worksheet, numbers, session, handle, quit_calls,
                   successful, failed, idx, ridx, frame, send_log, returns,
                   stats, elapsed, skipped, printed, exit_code>>

\* SendReportNext that counts a recipient without digits as a failed number
SendReportNext_counts_invalid ==
    /\ pc = "send_report"
    /\ frame.pc = "idle"
    /\ ridx <= Len(args.report_numbers)
    /\ LET number == args.report_numbers[ridx]
           normalized == normalize_phone(PyStr(number))
       IN  IF ~truthy(normalized)
           THEN /\ skipped' = Append(skipped, number)
                /\ stats' = [stats EXCEPT !.failed_numbers = Append(@, number)]
                /\ ridx' = ridx + 1
                /\ UNCHANGED <<frame, send_log>>
           ELSE /\ frame' = call_send_message("send_report", normalized.v,
                                              report_message)
                /\ send_log' = Append(send_log, [caller |-> "send_report",
                                                 number |-> normalized.v,
                                                 message |-> report_message])
                /\ UNCHANGED <<skipped, ridx, stats>>
    /\ UNCHANGED <<args, worksheet, pc, numbers, session, handle, quit_calls,
                   successful, failed, idx, returns, elapsed,
                   report_message, printed, exc, exit_code>>

\* for number in numbers: normalized = normalize_phone(number); a number
\* without digits is skipped with a warning, the others are sent the report
SendReportNext ==
    /\ pc = "send_report"
    /\ frame.pc = "idle"
    /\ ridx <= Len(args.report_numbers)
    /\ LET number == args.report_numbers[ridx]
           normalized == normalize_phone(PyStr(number))
       IN  IF ~truthy(normalized)
           THEN /\ skipped' = Append(skipped, number)
                /\ ridx' = ridx + 1
                /\ UNCHANGED <<frame, send_log>>
           ELSE /\ frame' = call_send_message("send_report", normalized.v,
                                              report_message)
                /\ send_log' = Append(send_log, [caller |-> "send_report",
                                                 number |-> normalized.v,
                                                 message |-> report_message])
                /\ UNCHANGED <<skipped, ridx>>
    /\ UNCHANGED <<args, worksheet, pc, numbers, session, handle, quit_calls,
                   successful, failed, idx, returns, stats, elapsed,
                   report_message, printed, exc, exit_code>>

\* SendReportResume that gives up the remaining recipients after a failed send
SendReportResume_break ==
    /\ pc = "send_report"
    /\ frame.pc = "returned"
    /\ frame.caller = "send_report"
    /\ ridx' = IF frame.ret = "True" THEN ridx + 1 ELSE Len(args.report_numbers) + 1
    /\ frame' = [frame EXCEPT !.pc = "idle", !.alert = "none"]
    /\ UNCHANGED <<args, worksheet, pc, numbers, session, handle, quit_calls,
                   successful, failed, idx, send_log, returns, stats, elapsed,
                   report_message, skipped, printed, exc, exit_code>>

\* send_message has returned to send_report, which ignores the result
SendReportResume ==
    /\ pc = "send_report"
    /\ frame.pc = "returned"
    /\ frame.caller = "send_report"
    /\ ridx' = ridx + 1
    /\ frame' = [frame EXCEPT !.pc = "idle", !.alert = "none"]
    /\ UNCHANGED <<args, worksheet, pc, numbers, session, handle, quit_calls,
                   successful, failed, idx, send_log, returns, stats, elapsed,
                   report_message, skipped, printed, exc, exit_code>>

\* send_report's loop is over: main goes on to print(report_message)
SendReportReturn ==
    /\ pc = "send_report"
    /\ frame.pc = "idle"
    /\ ridx > Len(args.report_numbers)
    /\ pc' = "print"
    /\ UNCHANGED <<args, worksheet, numbers, session, handle, quit_calls,
                   successful, failed, idx, ridx, frame, send_log, returns,
                   stats, elapsed, report_message, skipped, printed, exc,
                   exit_code>>

\* print(report_message): writes to standard output, or raises OSError when
\* standard output is closed
PrintReport ==
    /\ pc = "print"
    /\ \/ printed' = TRUE /\ exc' = exc
       \/ printed' = printed /\ exc' = "OSError"
    /\ pc' = "finally"
    /\ UNCHANGED <<args, worksheet, numbers, session, handle, quit_calls,
                   successful, failed, idx, ridx, frame, send_log, returns,
                   stats, elapsed, report_message, skipped, exit_code>>

\* Finally without the finally: browser.quit() only after a try block that
\* did not raise
Finally_quit_after_try ==
    /\ pc = "finally"
    /\ IF exc = "none"
       THEN /\ quit_calls' = quit_calls + 1
            /\ session' = "quit"
            /\ pc' = "returned"
            /\ exit_code' = {0}
       ELSE /\ pc' = "raised"
            /\ UNCHANGED <<quit_calls, session, exit_code>>
    /\ UNCHANGED <<args, worksheet, numbers, handle, successful, failed, idx,
                   ridx, frame, send_log, returns, stats, elapsed,
                   report_message, skipped, printed, exc>>

\* Finally with an exit code that reports the failed sends
Finally_exit_on_failures ==
    /\ pc = "finally"
    /\ quit_calls' = quit_calls + 1
    /\ session' = "quit"
    /\ IF exc = "none"
       THEN pc' = "returned"
            /\ exit_code' = IF stats.failed_numbers = <<>> THEN {0} ELSE {1}
       ELSE pc' = "raised" /\ exit_code' = exit_code
    /\ UNCHANGED <<args, worksheet, numbers, handle, successful, failed, idx,
                   ridx, frame, send_log, returns, stats, elapsed,
                   report_message, skipped, printed, exc>>

\* finally: browser.quit(); then `return 0`, or the pending exception goes on
Finally ==
    /\ pc = "finally"
    /\ quit_calls' = quit_calls + 1
    /\ session' = "quit"
    /\ IF exc = "none"
       THEN pc' = "returned" /\ exit_code' = {0}
       ELSE pc' = "raised" /\ exit_code' = exit_code
    /\ UNCHANGED <<args, worksheet, numbers, handle, successful, failed, idx,
                   ridx, frame, send_log, returns, stats, elapsed,
                   report_message, skipped, printed, exc>>

Next ==
    \/ LoadNumbers
    \/ BuildBrowser
    \/ SendGet
    \/ SendWaitTitle
    \/ SendWaitBox
    \/ SendKeys
    \/ SendSleep
    \/ SendDismiss
    \/ ProcessNumbersCall
    \/ ProcessNumbersAppend
    \/ ProcessNumbersReturn
    \/ BuildReport
    \/ SendReportNext
    \/ SendReportResume
    \/ SendReportReturn
    \/ PrintReport
    \/ Finally

Spec == Init /\ [][Next]_vars


(***************************************************************************)
(* Vocabulary of the properties.                                           *)
(***************************************************************************)
IsProcessCall(e) == e.caller = "process_numbers"
IsReportCall(e) == e.caller = "send_report"

\* the send_message calls made by process_numbers, and those by send_report
ProcessLog == SelectSeq(send_log, IsProcessCall)
ReportLog == SelectSeq(send_log, IsReportCall)

NumbersOf(log) == [i \in 1..Len(log) |-> log[i].number]

Count(seq, x) == Cardinality({i \in 1..Len(seq) : seq[i] = x})

\* main is inside its try block or past it
InRun == handle

\* process_numbers has returned its RunStats to main
ProcessNumbersReturned ==
    \/ pc \in {"build_report", "send_report", "print"}
    \/ /\ pc \in {"finally", "returned", "raised"}
       /\ handle
       /\ ~(frame.pc = "raised" /\ frame.caller = "process_numbers")

\* send_report has returned to main
SendReportReturned ==
    \/ pc = "print"
    \/ /\ pc \in {"finally", "returned", "raised"}
       /\ handle
       /\ frame.pc # "raised"
       /\ report_message # NoReport

\* the numbers among the first k inputs whose send returned `want`, in order
RECURSIVE Picked(_, _)
Picked(k, want) ==
    IF k = 0 THEN <<>>
    ELSE IF returns[k] = want THEN Append(Picked(k - 1, want), numbers[k])
    ELSE Picked(k - 1, want)

(***************************************************************************)
(* C1.  When process_numbers has returned, the successful and the failed   *)
(* numbers together are as many as the input numbers, and every input      *)
(* number occurs among them as often as in the input: none is dropped,     *)
(* none is duplicated.  While the loop runs, the two lists hold as many    *)
(* numbers as the loop has finished.                                       *)
(***************************************************************************)
C1_NoNumberDroppedOrDuplicated ==
    /\ (InRun /\ pc = "process_numbers") =>
          Len(successful) + Len(failed) = idx - 1
    /\ ProcessNumbersReturned =>
          /\ Len(stats.successful_numbers) + Len(stats.failed_numbers) = Len(numbers)
          /\ total(stats) = Len(numbers)
          /\ \A i \in 1..Len(numbers) :
                Count(stats.successful_numbers \o stats.failed_numbers, numbers[i])
                   = Count(numbers, numbers[i])

C1_Witness ==
    /\ ProcessNumbersReturned
    /\ Len(numbers) = 3
    /\ Len(stats.successful_numbers) = 1
    /\ Len(stats.failed_numbers) = 2

(***************************************************************************)
(* C2.  send_message never raises to its caller: it never ends by an       *)
(* exception, and when it ends it has returned True or False.              *)
(***************************************************************************)
C2_SendMessageNeverRaises ==
    /\ frame.pc # "raised"
    /\ frame.pc = "returned" => frame.ret \in {"True", "False"}

(***************************************************************************)
(* C3.  Once main holds a browser session, browser.quit() is called        *)
(* exactly once on every exit from the run, by return or by exception; it  *)
(* is never called twice, never before the run is over and never without   *)
(* a session.                                                              *)
(***************************************************************************)
C3_SessionReleasedExactlyOnce ==
    /\ quit_calls <= 1
    /\ (handle /\ pc \in {"returned", "raised"}) =>
          quit_calls = 1 /\ session = "quit"
    /\ pc \in {"process_numbers", "build_report", "send_report", "print", "finally"} =>
          quit_calls = 0 /\ session = "started"
    /\ quit_calls = 1 => handle

C3_Witness ==
    /\ pc = "raised"
    /\ exc = "OverflowError"
    /\ frame.pc = "raised"
    /\ frame.caller = "process_numbers"
    /\ quit_calls = 1

(***************************************************************************)
(* C4.  process_numbers calls send_message for the input numbers in input  *)
(* order, each at most once and, when it returns, each exactly once,       *)
(* whatever the calls returned; a call starts only when every earlier call *)
(* has returned.                                                           *)
(***************************************************************************)
C4_OneSendPerNumberInOrder ==
    /\ Len(ProcessLog) <= Len(numbers)
    /\ NumbersOf(ProcessLog) = SubSeq(numbers, 1, Len(ProcessLog))
    /\ ProcessNumbersReturned => NumbersOf(ProcessLog) = numbers
    /\ Len(returns) <= Len(send_log)
    /\ Len(send_log) <= Len(returns) + 1
    /\ (frame.pc \in {"get", "title", "box", "keys", "sleep", "dismiss"}) =>
          Len(send_log) = Len(returns) + 1

C4_Witness ==
    /\ ProcessNumbersReturned
    /\ Len(numbers) = 3
    /\ returns[1] = "False"
    /\ returns[2] = "False"
    /\ returns[3] = "True"
    /\ NumbersOf(ProcessLog) = numbers

(***************************************************************************)
(* C5.  The successful list is the input numbers whose send returned True  *)
(* and the failed list the input numbers whose send returned False, each   *)
(* in processing order; so every processed number is in exactly one list.  *)
(***************************************************************************)
C5_ListsFollowSendResults ==
    /\ (InRun /\ pc = "process_numbers") =>
          /\ successful = Picked(idx - 1, "True")
          /\ failed = Picked(idx - 1, "False")
    /\ ProcessNumbersReturned =>
          /\ stats.successful_numbers = Picked(Len(numbers), "True")
          /\ stats.failed_numbers = Picked(Len(numbers), "False")
          /\ \A i \in 1..Len(numbers) :
                Count(stats.successful_numbers, numbers[i])
                   + Count(stats.failed_numbers, numbers[i]) = 1

\* inputs [A, B]: A succeeds, B fails waiting for the compose element
C5_Witness ==
    /\ pc = "build_report"
    /\ Len(numbers) = 2
    /\ returns = <<"True", "False">>
    /\ frame.number = numbers[2]
    /\ frame.failed_at = "box"
    /\ stats.successful_numbers = <<numbers[1]>>
    /\ stats.failed_numbers = <<numbers[2]>>
    /\ total(stats) = 2


(***************************************************************************)
(* C6.  When load_numbers yields no number, main returns 1 at once: no     *)
(* browser session is started, send_message is never called, and no        *)
(* report is built, printed or sent.                                       *)
(***************************************************************************)
C6_NoNumbersNoRun ==
    (pc # "load_numbers" /\ numbers = <<>>) =>
        /\ pc = "returned"
        /\ exit_code = {1}
        /\ session = "none"
        /\ ~handle
        /\ quit_calls = 0
        /\ send_log = <<>>
        /\ frame = NoFrame
        /\ report_message = NoReport
        /\ skipped = <<>>
        /\ ~printed

C6_Witness ==
    /\ pc = "returned"
    /\ numbers = <<>>
    /\ exit_code = {1}
    /\ args.limit = NoLimit

(***************************************************************************)
(* C7.  main returns 0 only when every number has been sent to, every      *)
(* report recipient has been sent to or skipped, and the session has been  *)
(* released; and whenever main returns after loading at least one number   *)
(* it returns 0, however many sends returned False.                        *)
(***************************************************************************)
C7_ExitZeroAfterFullRun ==
    /\ exit_code = {0} =>
          /\ pc = "returned"
          /\ numbers # <<>>
          /\ NumbersOf(ProcessLog) = numbers
          /\ Len(stats.successful_numbers) + Len(stats.failed_numbers) = Len(numbers)
          /\ ridx > Len(args.report_numbers)
          /\ Len(ReportLog) + Len(skipped) = Len(args.report_numbers)
          /\ Len(returns) = Len(send_log)
          /\ printed
          /\ quit_calls = 1
          /\ session = "quit"
    /\ (pc = "returned" /\ numbers # <<>>) => exit_code = {0}

\* every send of the run, to the numbers and to the recipients, returned False
C7_Witness ==
    /\ exit_code = {0}
    /\ Len(numbers) = 2
    /\ Len(returns) >= 4
    /\ \A i \in 1..Len(returns) : returns[i] = "False"

\* the recipients among the first k that normalize to a number, normalized
RECURSIVE ValidRecipients(_)
ValidRecipients(k) ==
    IF k = 0 THEN <<>>
    ELSE LET digits == filter_isdigit(args.report_numbers[k])
         IN  IF digits = <<>> THEN ValidRecipients(k - 1)
             ELSE Append(ValidRecipients(k - 1), digits)

(***************************************************************************)
(* C8.  The report sends come after all the sends to the numbers, with     *)
(* the report rendered from the final statistics as their message, one     *)
(* per recipient that has a digit, in recipient order; when send_report    *)
(* returns every such recipient has had its send, whatever the earlier     *)
(* report sends returned.                                                  *)
(***************************************************************************)
C8_ReportDispatch ==
    /\ send_log = ProcessLog \o ReportLog
    /\ ReportLog # <<>> =>
          /\ NumbersOf(ProcessLog) = numbers
          /\ Len(returns) >= Len(numbers)
          /\ idx = Len(numbers) + 1
          /\ Len(stats.successful_numbers) + Len(stats.failed_numbers) = Len(numbers)
          /\ stats = RunStats(successful, failed)
          /\ report_message.numeros_com_erro = failed
          /\ report_message.enviados_sucesso = Len(successful)
    /\ \A i \in 1..Len(ReportLog) : ReportLog[i].message = report_message
    /\ pc = "send_report" =>
          NumbersOf(ReportLog) =
             ValidRecipients(IF frame.pc = "idle" THEN ridx - 1 ELSE ridx)
    /\ SendReportReturned =>
          NumbersOf(ReportLog) = ValidRecipients(Len(args.report_numbers))

\* three recipients, the second without a digit, the first send failed
C8_Witness ==
    /\ SendReportReturned
    /\ Len(args.report_numbers) = 3
    /\ skipped # <<>>
    /\ Len(ReportLog) = 2
    /\ returns[Len(numbers) + 1] = "False"
    /\ returns[Len(numbers) + 2] = "True"

(***************************************************************************)
(* C9.  Once process_numbers has returned, no step changes the statistics  *)
(* or the two lists they hold: not a skipped recipient, not a report send  *)
(* that returns False.                                                     *)
(***************************************************************************)
C9_StatsUnchangedByReport ==
    [][ProcessNumbersReturned =>
          /\ stats' = stats
          /\ successful' = successful
          /\ failed' = failed]_vars

C9_Witness ==
    /\ pc = "print"
    /\ skipped # <<>>
    /\ \E i \in (Len(numbers) + 1)..Len(returns) : returns[i] = "False"
    /\ stats = RunStats(Picked(Len(numbers), "True"), Picked(Len(numbers), "False"))
    /\ stats.failed_numbers # <<>>

(***************************************************************************)
(* build_report as a function of its arguments.                            *)
(***************************************************************************)
\* longest list of the statistics given to build_report
MaxStatLen == 3

StatNumbers == {<<"1", "1", "9">>, <<"2", "2">>}

ElapsedArguments == {0 - 1, 0, 59, 100, 3661, 90061}

InitReport ==
    /\ stats \in {RunStats(s, f) : s \in SeqsUpTo(StatNumbers, MaxStatLen),
                                   f \in SeqsUpTo(StatNumbers, MaxStatLen)}
    /\ elapsed \in ElapsedArguments
    /\ pc = "build_report"
    /\ args = [limit |-> NoLimit, delay |-> 1, report_numbers |-> report_numbers(<<>>)]
    /\ worksheet = <<>>
    /\ numbers = stats.successful_numbers \o stats.failed_numbers
    /\ session = "started"
    /\ handle = TRUE
    /\ quit_calls = 0
    /\ successful = stats.successful_numbers
    /\ failed = stats.failed_numbers
    /\ idx = Len(numbers) + 1
    /\ ridx = 1
    /\ frame = NoFrame
    /\ send_log = <<>>
    /\ returns = <<>>
    /\ report_message = NoReport
    /\ skipped = <<>>
    /\ printed = FALSE
    /\ exc = "none"
    /\ exit_code = {}

NextReport == BuildReport

SpecReport == InitReport /\ [][NextReport]_vars

\* hours, minutes and seconds of a time of day
HMS(t) == <<t \div 3600, (t % 3600) \div 60, t % 60>>

(***************************************************************************)
(* C10.  The report's total is successes + failures; the average is        *)
(* elapsed / total, and 0 when total is 0; 3 successes, 2 failures and     *)
(* 100 s give total 5 and average 20 s; the success count, failure count   *)
(* and failed list of the report are those of the statistics.              *)
(***************************************************************************)
C10_ReportArithmetic ==
    pc = "send_report" =>
        LET n == Len(stats.successful_numbers) + Len(stats.failed_numbers)
            avg == tempo_medio(stats, elapsed)
        IN  /\ report_message.total_de_numeros = n
            /\ report_message.enviados_sucesso = Len(stats.successful_numbers)
            /\ report_message.enviados_erro = Len(stats.failed_numbers)
            /\ report_message.numeros_com_erro = stats.failed_numbers
            /\ n = 0 => avg.num = 0 /\ report_message.tempo_medio = <<0, 0, 0>>
            /\ n # 0 =>
                  /\ avg.num * n = elapsed * avg.den
                  /\ report_message.tempo_medio = HMS((elapsed \div n) % 86400)
            /\ (Len(stats.successful_numbers) = 3 /\ Len(stats.failed_numbers) = 2
                   /\ elapsed = 100) =>
                  /\ report_message.total_de_numeros = 5
                  /\ report_message.tempo_medio = <<0, 0, 20>>

C10_Witness ==
    /\ pc = "send_report"
    /\ Len(stats.successful_numbers) = 3
    /\ Len(stats.failed_numbers) = 2
    /\ elapsed = 100
    /\ report_message.total_de_numeros = 5
    /\ report_message.tempo_medio = <<0, 0, 20>>


(***************************************************************************)
(* C11.  dismiss_alert never raises, with or without an open alert, and    *)
(* send_message returns the boolean that was pending before the dismissal. *)
(***************************************************************************)
C11_DismissKeepsSendResult ==
    [][frame.pc = "dismiss" =>
          /\ frame'.pc = "returned"
          /\ frame'.ret = frame.ret
          /\ frame'.ret \in {"True", "False"}
          /\ returns' = Append(returns, frame.ret)
          /\ exc' = exc
          /\ pc' = pc]_vars

\* no alert was open, and the send that succeeded has returned True
C11_Witness ==
    /\ frame.pc = "returned"
    /\ frame.alert = "absent"
    /\ frame.failed_at = "none"
    /\ frame.ret = "True"
    /\ returns[Len(returns)] = "True"


(***************************************************************************)
(* load_numbers as a function of the column and the limit.                 *)
(***************************************************************************)
LimitArguments == {NoLimit, Limit(0), Limit(1), Limit(2), Limit(3)}

InitLoad ==
    /\ worksheet \in Columns
    /\ args \in [limit : LimitArguments, delay : {1},
                 report_numbers : {report_numbers(<<>>)}]
    /\ pc = "load_numbers"
    /\ numbers = <<>>
    /\ session = "none"
    /\ handle = FALSE
    /\ quit_calls = 0
    /\ successful = <<>>
    /\ failed = <<>>
    /\ idx = 1
    /\ ridx = 1
    /\ frame = NoFrame
    /\ send_log = <<>>
    /\ returns = <<>>
    /\ stats = RunStats(<<>>, <<>>)
    /\ elapsed = 0
    /\ report_message = NoReport
    /\ skipped = <<>>
    /\ printed = FALSE
    /\ exc = "none"
    /\ exit_code = {}

\* numbers = load_numbers(workbook, sheet, column, limit), the column kept
\* beside the result
LoadNumbersCall ==
    /\ pc = "load_numbers"
    /\ numbers' = load_numbers(worksheet, args.limit)
    /\ pc' = "loaded"
    /\ UNCHANGED <<args, worksheet, session, handle, quit_calls, successful,
                   failed, idx, ridx, frame, send_log, returns, stats, elapsed,
                   report_message, skipped, printed, exc, exit_code>>

NextLoad == LoadNumbersCall

SpecLoad == InitLoad /\ [][NextLoad]_vars

\* the digits of cell i of the column, <<>> for an empty cell
DigitsOfCell(i) ==
    IF worksheet[i].t = "None" THEN <<>> ELSE filter_isdigit(worksheet[i].v)

\* the cells that hold at least one digit
ValidCells == {i \in 1..Len(worksheet) : DigitsOfCell(i) # <<>>}

\* the first cell whose digits are x
FirstCell(x) ==
    CHOOSE i \in ValidCells :
        DigitsOfCell(i) = x /\ \A j \in ValidCells : DigitsOfCell(j) = x => i <= j

\* the limit is a cap: an int above 0
IsCap(limit) == limit.t = "int" /\ limit.n > 0

(***************************************************************************)
(* C12.  load_numbers returns numbers of the column, none of them twice,   *)
(* in the order of their first cells; with a cap L > 0 at most L of them,  *)
(* and without a cap every number of the column ([X, X, Y] gives [X, Y]).  *)
(***************************************************************************)
C12_UniqueInFirstOccurrenceOrder ==
    pc = "loaded" =>
        /\ \A k, l \in 1..Len(numbers) : k # l => numbers[k] # numbers[l]
        /\ \A k \in 1..Len(numbers) : \E i \in ValidCells : DigitsOfCell(i) = numbers[k]
        /\ \A k, l \in 1..Len(numbers) :
              k < l => FirstCell(numbers[k]) < FirstCell(numbers[l])
        /\ IsCap(args.limit) => Len(numbers) <= args.limit.n
        /\ ~IsCap(args.limit) =>
              \A i \in ValidCells : \E k \in 1..Len(numbers) : numbers[k] = DigitsOfCell(i)

\* the column [X, X, Y] without a cap
C12_Witness ==
    /\ pc = "loaded"
    /\ args.limit = NoLimit
    /\ Len(worksheet) = 3
    /\ ValidCells = {1, 2, 3}
    /\ DigitsOfCell(1) = DigitsOfCell(2)
    /\ DigitsOfCell(3) # DigitsOfCell(1)
    /\ numbers = <<DigitsOfCell(1), DigitsOfCell(3)>>

\* the digits of the cells i.. that hold a digit, in column order
RECURSIVE ValidEntriesFrom(_)
ValidEntriesFrom(i) ==
    IF i > Len(worksheet) THEN <<>>
    ELSE IF i \in ValidCells THEN <<DigitsOfCell(i)>> \o ValidEntriesFrom(i + 1)
    ELSE ValidEntriesFrom(i + 1)

\* s without the elements that occur earlier in s
RECURSIVE FirstOccurrences(_)
FirstOccurrences(s) ==
    IF s = <<>> THEN <<>>
    ELSE LET front == SubSeq(s, 1, Len(s) - 1)
             last == s[Len(s)]
         IN  IF \E j \in 1..Len(front) : front[j] = last
             THEN FirstOccurrences(front)
             ELSE Append(FirstOccurrences(front), last)

\* the first n elements of s, all of s when it has fewer
FirstN(s, n) == IF Len(s) <= n THEN s ELSE SubSeq(s, 1, n)

(***************************************************************************)
(* C19.  With a cap L > 0, load_numbers returns the first occurrences      *)
(* among the first L entries of the column that hold a digit, so the cap   *)
(* counts entries before duplicates are removed; with the limit None or 0  *)
(* it returns the first occurrences among all such entries.                *)
(***************************************************************************)
C19_CapBeforeDeduplication ==
    pc = "loaded" =>
        numbers = FirstOccurrences(IF IsCap(args.limit)
                                   THEN FirstN(ValidEntriesFrom(1), args.limit.n)
                                   ELSE ValidEntriesFrom(1))

\* cap 2 on a column with two distinct numbers gives one number
C19_Witness ==
    /\ pc = "loaded"
    /\ args.limit = Limit(2)
    /\ Cardinality({DigitsOfCell(i) : i \in ValidCells}) = 2
    /\ Len(ValidEntriesFrom(1)) = 3
    /\ Len(numbers) = 1


(***************************************************************************)
(* C13.  Every number send_message is called with, for a target number or  *)
(* for a report recipient, is a non-empty string of the digits 0 to 9.     *)
(***************************************************************************)
C13_SentNumbersAreDigitStrings ==
    \A i \in 1..Len(send_log) :
        /\ send_log[i].number # <<>>
        /\ \A k \in 1..Len(send_log[i].number) : send_log[i].number[k] \in AsciiDigit

(***************************************************************************)
(* C14.  When build_browser raises no browser has been started, and        *)
(* wherever main ends, by return or by exception, no started browser is    *)
(* left that was not released.                                             *)
(***************************************************************************)
C14_NoBrowserLeftRunning ==
    /\ (pc = "raised" /\ ~handle) => session = "none"
    /\ pc \in {"returned", "raised"} => session # "started"


\* the statements of send_message's try block, in program order
TrySteps == <<"get", "title", "box", "keys">>

IsTryStep(step) == step \in {"get", "title", "box", "keys"}

\* the statements of the try block a call has executed
Tried(f) == SelectSeq(f.steps, IsTryStep)

\* position of a statement in the try block
TryPosition(step) == CHOOSE k \in 1..4 : TrySteps[k] = step

(***************************************************************************)
(* C15.  A send_message call executes navigate, title wait, compose wait   *)
(* and typing in this order; the first statement that raises is the last   *)
(* one of them it executes, so the message is typed only after the three   *)
(* others succeeded; it returns True exactly when all four were executed   *)
(* and none raised, and False otherwise.                                   *)
(***************************************************************************)
C15_StepsInOrderUntilFailure ==
    frame.caller # "none" =>
        /\ Len(Tried(frame)) <= 4
        /\ Tried(frame) = SubSeq(TrySteps, 1, Len(Tried(frame)))
        /\ IsTryStep(frame.pc) =>
              /\ frame.failed_at = "none"
              /\ Len(Tried(frame)) = TryPosition(frame.pc) - 1
              /\ frame.steps = Tried(frame)
        /\ frame.failed_at # "none" =>
              /\ Tried(frame) = SubSeq(TrySteps, 1, TryPosition(frame.failed_at))
              /\ ~IsTryStep(frame.pc)
              /\ frame.ret # "True"
        /\ (\E k \in 1..Len(frame.steps) : frame.steps[k] = "keys") =>
              frame.failed_at \in {"none", "keys"}
        /\ frame.pc \in {"returned", "idle"} =>
              /\ frame.ret \in {"True", "False"}
              /\ frame.ret = "True" <=>
                    (Tried(frame) = TrySteps /\ frame.failed_at = "none")

\* the compose element did not appear: nothing typed, False returned
C15_Witness ==
    /\ frame.pc = "returned"
    /\ frame.failed_at = "box"
    /\ frame.steps = <<"get", "title", "box", "sleep", "dismiss">>
    /\ frame.ret = "False"

\* the call has paused once and then tried once to dismiss an alert, after
\* everything else it did
PausedThenDismissed(f) ==
    /\ Len(f.steps) >= 2
    /\ f.steps[Len(f.steps) - 1] = "sleep"
    /\ f.steps[Len(f.steps)] = "dismiss"
    /\ \A k \in 1..(Len(f.steps) - 2) : f.steps[k] \notin {"sleep", "dismiss"}

(***************************************************************************)
(* C16.  When send_message returns, True or False, it has paused and then  *)
(* tried to dismiss an alert, once each and after its other statements;    *)
(* and a call that follows another starts only after that one returned, so *)
(* one pause and then one dismissal lie between their navigations.         *)
(***************************************************************************)
C16_PauseThenDismissAfterEveryAttempt ==
    [][/\ (frame'.pc = "returned" /\ frame.pc # "returned") =>
             PausedThenDismissed(frame')
       /\ (frame'.pc = "get" /\ frame.caller # "none") =>
             /\ frame.pc = "idle"
             /\ PausedThenDismissed(frame)]_vars

\* the second attempt of a run is about to navigate, after a failed first
C16_Witness ==
    /\ frame.pc = "get"
    /\ frame.steps = <<>>
    /\ Len(send_log) = 2
    /\ returns = <<"False">>

(***************************************************************************)
(* C18.  Every statement of send_message, for a number or for a report     *)
(* recipient, is executed while main holds the session and has not         *)
(* released it; once the session is released no statement is executed.     *)
(***************************************************************************)
C18_SessionUsedOnlyWhileOpen ==
    [][/\ frame' # frame =>
             /\ handle
             /\ session = "started"
             /\ session' = "started"
             /\ quit_calls = 0
       /\ session = "quit" => frame' = frame]_vars

\* the run is over, released after a report send that used the session
C18_Witness ==
    /\ pc = "returned"
    /\ session = "quit"
    /\ frame.caller = "send_report"
    /\ frame.steps = <<"get", "title", "box", "keys", "sleep", "dismiss">>
    /\ Len(ReportLog) = 3


(***************************************************************************)
(* The run with progress: the program is sequential, every wait of the     *)
(* browser is bounded by max_wait and every sleep that starts ends, so a   *)
(* statement that can be executed eventually is.                           *)
(***************************************************************************)
\* The columns of these runs hold an empty cell or one of two numbers.
RunCells ==
    { PyNone,
      PyStr(<<"(", "1", "1", ")", " ", "9">>),
      PyInt(<<"2", "2">>) }

FairInit == Init /\ worksheet \in SeqsUpTo(RunCells, MaxCells)

FairSpec == FairInit /\ [][Next]_vars /\ WF_vars(Next)

\* main has ended, by return or by an exception nobody handles
Terminated == pc \in {"returned", "raised"}

(***************************************************************************)
(* C17.  A run that holds a browser session eventually ends, by a return   *)
(* or by an unhandled exception, with the session released.                *)
(***************************************************************************)
C17_RunReleasesAndTerminates ==
    handle ~> (Terminated /\ session = "quit" /\ quit_calls = 1)

\* a full run has ended: two numbers and three report sends
C17_Witness ==
    /\ Terminated
    /\ session = "quit"
    /\ Len(numbers) = 2
    /\ Len(ProcessLog) = 2
    /\ Len(ReportLog) = 3
    /\ Len(returns) = 5


(***************************************************************************)
(* C20.  The report recipients are the two default recipients followed by  *)
(* the --report-number options in the order given; when send_report        *)
(* returns, its first two sends were to the two default recipients.        *)
(***************************************************************************)
C20_DefaultsAlwaysReported ==
    /\ Len(args.report_numbers) >= 2
    /\ args.report_numbers[1] = <<"1", "1", "9", "6", "9", "2", "5", "7", "9", "2", "0">>
    /\ args.report_numbers[2] = <<"1", "1", "9", "5", "3", "0", "7", "5", "4", "4", "2">>
    /\ \A k \in 3..Len(args.report_numbers) : args.report_numbers[k] \in ReportOptions
    /\ (pc = "send_report" /\ ridx > 2) =>
          /\ Len(ReportLog) >= 2
          /\ ReportLog[1].number = args.report_numbers[1]
          /\ ReportLog[2].number = args.report_numbers[2]
    /\ SendReportReturned =>
          /\ Len(ReportLog) >= 2
          /\ ReportLog[1].number = args.report_numbers[1]
          /\ ReportLog[2].number = args.report_numbers[2]

\* one --report-number option: it is the third recipient, after the defaults
C20_Witness ==
    /\ SendReportReturned
    /\ Len(args.report_numbers) = 3
    /\ args.report_numbers[3] = <<"(", "3", ")">>
    /\ Len(ReportLog) = 3
    /\ ReportLog[3].number = <<"3">>
    /\ printed

====
